---- MODULE Spec2Model ----
(***************************************************************************)
(* Graph construction of the dilated U-Net of rvseg/models/dilatedunet.py. *)
(* A tensor is its static shape [h, w, c] (batch axis elided).  One build  *)
(* of dilated_unet is a run of the state machine: one action per loop      *)
(* iteration, per loop exit and for the output head.  BatchNormalization,  *)
(* Activation and Dropout nodes keep the shape of their input and take no  *)
(* part in any decision of the code, so a block is modelled by the nodes   *)
(* that determine shapes: Conv2D, MaxPooling2D, Conv2DTranspose,           *)
(* Cropping2D, Concatenate, Lambda.                                        *)
(***************************************************************************)
EXTENDS Integers, Sequences, FiniteSets, TLC

VARIABLES
    call,           \* which function of the module is being called
    cfg,            \* the arguments of the call
    pc,             \* position in the body of the called function
    x,              \* the current tensor
    skips,          \* dilated_unet: list of pre-pooling encoder tensors
    features,       \* dilated_unet: feature counter
    i,              \* index the running for-loop hands out next
    dilation_rate,  \* dilated_unet: dilation-rate counter
    convs,          \* number of Conv2D nodes added to the graph so far
    encLog,         \* per encoder stage: filters used, skip produced
    dilLog,         \* per bottleneck layer: rate and filters used
    decLog,         \* per decoder stage: what upsampling_block computed
    err,            \* exception that ended the call, "none" otherwise
    errAt,          \* where it was raised
    model           \* the returned Model, NoModel before the return

vars == <<call, cfg, pc, x, skips, features, i, dilation_rate, convs,
          encLog, dilLog, decLog, err, errAt, model>>

----------------------------------------------------------------------------
(* Bounds of the model and the argument sets.                              *)

MaxSize == 8
MaxDepth == 3
MaxDilationLayers == 2
MaxBlockSize == 4

DefaultDepth == 4
DefaultDilationLayers == 5
DefaultFeatures == 64

ExtraSizes == {12, 15, 16, 34, 100, 128, 256, 284}
Sizes == (1..MaxSize) \cup ExtraSizes
Depths == (0..MaxDepth) \cup {DefaultDepth}
DilationLayerCounts == (0..MaxDilationLayers) \cup {DefaultDilationLayers}
Paddings == {"valid", "same"}
ChannelCounts == {1, 3}
ClassCounts == {2, 5}
Temperatures == {-1, 0, 1}
FeatureCounts == {16, DefaultFeatures}

NoModel == [built |-> FALSE]
NoTensor == [h |-> 0, w |-> 0, c |-> 0]
NoWhere == [phase |-> "none", stage |-> 0]

RECURSIVE Pow2(_)
Pow2(n) == IF n <= 0 THEN 1 ELSE 2 * Pow2(n - 1)

----------------------------------------------------------------------------
(* The layers of the tensor library, by the shape they produce.            *)

\* output length of a convolution along one axis
ConvOutNoSame(n, k, d, padding) == n - d * (k - 1)
ConvOutNoDilation(n, k, d, padding) == IF padding = "same" THEN n ELSE n - (k - 1)
ConvOut(n, k, d, padding) ==
    IF padding = "same" THEN n ELSE n - d * (k - 1)

Conv2D(t, filters, k, d, padding) ==
    [h |-> ConvOut(t.h, k, d, padding), w |-> ConvOut(t.w, k, d, padding),
     c |-> filters]

\* MaxPooling2D(pool_size=(2,2)): stride 2, no padding
MaxPooling2D(t) == [h |-> t.h \div 2, w |-> t.w \div 2, c |-> t.c]

\* Conv2DTranspose(kernel_size=(2,2), strides=(2,2)) along one axis
TransposeOutOverlap(n) == 2 * n + 1
TransposeOut(n) == 2 * n

Conv2DTranspose(t, filters) ==
    [h |-> TransposeOut(t.h), w |-> TransposeOut(t.w), c |-> filters]

Cropping2D(t, cropping) ==
    [h |-> t.h - cropping[1][1] - cropping[1][2],
     w |-> t.w - cropping[2][1] - cropping[2][2], c |-> t.c]

Concatenate(a, b) == [h |-> a.h, w |-> a.w, c |-> a.c + b.c]

\* A layer whose output would have a negative extent is refused by the
\* library; one with an empty (zero) extent is refused by some versions of
\* the library and accepted by others (zeroOk).
ShapeOk(t, zeroOk) ==
    /\ t.h >= 0
    /\ t.w >= 0
    /\ zeroOk \/ (t.h > 0 /\ t.w > 0)

Node(kind, out, ok) == [kind |-> kind, out |-> out, ok |-> ok]

\* index of the first refused node of a block, Len + 1 when all are built
RECURSIVE FirstBad(_, _)
FirstBad(nodes, from) ==
    IF from > Len(nodes) THEN from
    ELSE IF ~nodes[from].ok THEN from
    ELSE FirstBad(nodes, from + 1)

ConvsBuilt(nodes) ==
    Cardinality({j \in 1..(FirstBad(nodes, 1) - 1) : nodes[j].kind = "conv"})

AllBuilt(nodes) == FirstBad(nodes, 1) > Len(nodes)

----------------------------------------------------------------------------
(* downsampling_block                                                      *)

EvenAssertHeightOnly(t) == t.h % 2 = 0
EvenAssert(t) ==
    /\ t.h % 2 = 0
    /\ t.w % 2 = 0

DownsamplingBlock(input_tensor, filters, padding, zeroOk) ==
    LET c1 == Conv2D(input_tensor, filters, 3, 1, padding)
        c2 == Conv2D(c1, filters, 3, 2, padding)
        p  == MaxPooling2D(c2)
        nodes == << Node("conv", c1, ShapeOk(c1, zeroOk)),
                    Node("conv", c2, ShapeOk(c2, zeroOk)),
                    Node("pool", p, ShapeOk(p, zeroOk)) >>
    IN  IF ~EvenAssert(input_tensor)
        THEN [err |-> "AssertionError", convs |-> 0,
              pooled |-> NoTensor, skip |-> NoTensor]
        ELSE IF ~AllBuilt(nodes)
        THEN [err |-> "ValueError", convs |-> ConvsBuilt(nodes),
              pooled |-> NoTensor, skip |-> NoTensor]
        ELSE [err |-> "none", convs |-> 2, pooled |-> p, skip |-> c2]

----------------------------------------------------------------------------
(* upsampling_block                                                        *)

CropAssertHeightOnly(h_crop, w_crop) == h_crop >= 0
CropAssert(h_crop, w_crop) ==
    /\ h_crop >= 0
    /\ w_crop >= 0

CroppingSymmetric(h_crop, w_crop) ==
    << <<h_crop \div 2, h_crop \div 2>>, <<w_crop \div 2, w_crop \div 2>> >>
Cropping(h_crop, w_crop) ==
    << <<h_crop \div 2, h_crop - h_crop \div 2>>,
       <<w_crop \div 2, w_crop - w_crop \div 2>> >>

NoCropping == << <<0, 0>>, <<0, 0>> >>

UpsamplingBlock(input_tensor, skip_tensor, filters, padding, zeroOk) ==
    LET up == Conv2DTranspose(input_tensor, filters)
        h_crop == skip_tensor.h - up.h
        w_crop == skip_tensor.w - up.w
        cropped == ~(h_crop = 0 /\ w_crop = 0)
        cropping == IF cropped THEN Cropping(h_crop, w_crop) ELSE NoCropping
        y == IF cropped THEN Cropping2D(skip_tensor, cropping) ELSE skip_tensor
        cat == Concatenate(up, y)
        c1 == Conv2D(cat, filters, 3, 1, padding)
        c2 == Conv2D(c1, filters, 3, 1, padding)
        nodes == (IF cropped THEN << Node("crop", y, ShapeOk(y, zeroOk)) >>
                             ELSE << >>)
                 \o << Node("concat", cat, y.h = up.h /\ y.w = up.w),
                       Node("conv", c1, ShapeOk(c1, zeroOk)),
                       Node("conv", c2, ShapeOk(c2, zeroOk)) >>
        seen == [up |-> up, skip |-> skip_tensor, h_crop |-> h_crop,
                 w_crop |-> w_crop, cropped |-> cropped,
                 cropping |-> cropping, y |-> y, filters |-> filters]
    IN  IF ~ShapeOk(up, zeroOk)
        THEN [err |-> "ValueError", convs |-> 0, out |-> NoTensor,
              asserted |-> FALSE, seen |-> seen]
        ELSE IF ~CropAssert(h_crop, w_crop)
        THEN [err |-> "AssertionError", convs |-> 0, out |-> NoTensor,
              asserted |-> FALSE, seen |-> seen]
        ELSE IF ~AllBuilt(nodes)
        THEN [err |-> "ValueError", convs |-> ConvsBuilt(nodes),
              out |-> NoTensor, asserted |-> TRUE, seen |-> seen]
        ELSE [err |-> "none", convs |-> 2, out |-> c2,
              asserted |-> TRUE, seen |-> seen]

----------------------------------------------------------------------------
(* dilated_unet                                                            *)

Input(height, width, channels) == [h |-> height, w |-> width, c |-> channels]

NextRateIncrement(rate) == rate + 1
NextRate(rate) == rate * 2

Halve(f) == f \div 2

\* skips[i] of the 0-indexed Python list
SkipAtReversed(list, idx) == list[Len(list) - idx]
SkipAt(list, idx) == list[idx + 1]

UnetConfigs ==
    [height : Sizes, width : Sizes, channels : ChannelCounts,
     classes : ClassCounts, features : FeatureCounts, depth : Depths,
     temperature : Temperatures, padding : Paddings,
     dilation_layers : DilationLayerCounts]

\* lines 94-97: the input placeholder and the empty skip list
InitUnet ==
    /\ call = "dilated_unet"
    /\ cfg \in UnetConfigs
    /\ pc = "encoder"
    /\ x = Input(cfg.height, cfg.width, cfg.channels)
    /\ skips = << >>
    /\ features = cfg.features
    /\ i = 0
    /\ dilation_rate = 0
    /\ convs = 0
    /\ encLog = << >>
    /\ dilLog = << >>
    /\ decLog = << >>
    /\ err = "none"
    /\ errAt = NoWhere
    /\ model = NoModel

Raise(e, phase, stage, built) ==
    /\ pc' = "error"
    /\ err' = e
    /\ errAt' = [phase |-> phase, stage |-> stage]
    /\ convs' = convs + built
    /\ UNCHANGED <<call, cfg, x, skips, features, i, dilation_rate,
                   encLog, dilLog, decLog, model>>

\* lines 98-102: one iteration of the encoder loop
EncoderStage ==
    /\ call = "dilated_unet"
    /\ pc = "encoder"
    /\ i < cfg.depth
    /\ \E zeroOk \in BOOLEAN :
         LET r == DownsamplingBlock(x, features, cfg.padding, zeroOk)
         IN  IF r.err # "none"
             THEN Raise(r.err, "encoder", i, r.convs)
             ELSE /\ x' = r.pooled
                  /\ skips' = Append(skips, r.skip)
                  /\ encLog' = Append(encLog, [stage |-> i, filters |-> features,
                                               skip |-> r.skip])
                  /\ features' = features * 2
                  /\ i' = i + 1
                  /\ convs' = convs + r.convs
                  /\ UNCHANGED <<call, cfg, pc, dilation_rate, dilLog, decLog,
                                 err, errAt, model>>

\* line 98 exhausted, line 104
EncoderDone ==
    /\ call = "dilated_unet"
    /\ pc = "encoder"
    /\ i >= cfg.depth
    /\ pc' = "bottleneck"
    /\ dilation_rate' = 1
    /\ i' = 0
    /\ UNCHANGED <<call, cfg, x, skips, features, convs, encLog, dilLog,
                   decLog, err, errAt, model>>

\* lines 105-111: one layer of the context module
BottleneckLayer ==
    /\ call = "dilated_unet"
    /\ pc = "bottleneck"
    /\ i < cfg.dilation_layers
    /\ \E zeroOk \in BOOLEAN :
         LET c == Conv2D(x, features, 3, dilation_rate, cfg.padding)
         IN  IF ~ShapeOk(c, zeroOk)
             THEN Raise("ValueError", "bottleneck", i, 0)
             ELSE /\ x' = c
                  /\ dilLog' = Append(dilLog, [layer |-> i, rate |-> dilation_rate,
                                               filters |-> features])
                  /\ dilation_rate' = NextRate(dilation_rate)
                  /\ i' = i + 1
                  /\ convs' = convs + 1
                  /\ UNCHANGED <<call, cfg, pc, skips, features, encLog, decLog,
                                 err, errAt, model>>

\* line 105 exhausted, line 113: reversed(range(depth)) starts at depth - 1
BottleneckDone ==
    /\ call = "dilated_unet"
    /\ pc = "bottleneck"
    /\ i >= cfg.dilation_layers
    /\ pc' = "decoder"
    /\ i' = cfg.depth - 1
    /\ UNCHANGED <<call, cfg, x, skips, features, dilation_rate, convs, encLog,
                   dilLog, decLog, err, errAt, model>>

\* lines 113-116: one iteration of the decoder loop
DecoderStage ==
    /\ call = "dilated_unet"
    /\ pc = "decoder"
    /\ i >= 0
    /\ \E zeroOk \in BOOLEAN :
         LET f == Halve(features)
             r == UpsamplingBlock(x, SkipAt(skips, i), f, cfg.padding, zeroOk)
         IN  IF r.err # "none"
             THEN /\ pc' = "error"
                  /\ err' = r.err
                  /\ errAt' = [phase |-> "decoder", stage |-> i]
                  /\ convs' = convs + r.convs
                  /\ features' = f
                  /\ decLog' = IF r.asserted
                               THEN Append(decLog, [stage |-> i] @@ r.seen)
                               ELSE decLog
                  /\ UNCHANGED <<call, cfg, x, skips, i, dilation_rate,
                                 encLog, dilLog, model>>
             ELSE /\ x' = r.out
                  /\ features' = f
                  /\ decLog' = Append(decLog, [stage |-> i] @@ r.seen)
                  /\ i' = i - 1
                  /\ convs' = convs + r.convs
                  /\ UNCHANGED <<call, cfg, pc, skips, dilation_rate, encLog,
                                 dilLog, err, errAt, model>>

\* line 113 exhausted
DecoderDone ==
    /\ call = "dilated_unet"
    /\ pc = "decoder"
    /\ i < 0
    /\ pc' = "head"
    /\ UNCHANGED <<call, cfg, x, skips, features, i, dilation_rate, convs,
                   encLog, dilLog, decLog, err, errAt, model>>

\* lines 118-123: 1x1 convolution to the classes, the division of the
\* symbolic logits by temperature (a graph node: nothing is divided while
\* the graph is built), softmax, Model
OutputHead ==
    /\ call = "dilated_unet"
    /\ pc = "head"
    /\ \E zeroOk \in BOOLEAN :
         LET logits == Conv2D(x, cfg.classes, 1, 1, "valid")
         IN  IF ~ShapeOk(logits, zeroOk)
             THEN Raise("ValueError", "head", 0, 0)
             ELSE /\ x' = logits
                  /\ convs' = convs + 1
                  /\ pc' = "done"
                  /\ model' = [built |-> TRUE,
                               inputs |-> Input(cfg.height, cfg.width,
                                                cfg.channels),
                               outputs |-> logits,
                               temperature |-> cfg.temperature]
                  /\ UNCHANGED <<call, cfg, skips, features, i, dilation_rate,
                                 encLog, dilLog, decLog, err, errAt>>

NextUnet ==
    \/ EncoderStage
    \/ EncoderDone
    \/ BottleneckLayer
    \/ BottleneckDone
    \/ DecoderStage
    \/ DecoderDone
    \/ OutputHead

Init == InitUnet
Next == NextUnet
Spec == Init /\ [][Next]_vars

----------------------------------------------------------------------------
(* The two blocks called on their own, on tensors of any small shape.      *)

BlockSizes == 1..MaxBlockSize
SkipSizes == 1..(2 * MaxBlockSize + 2)

UpsamplingArgs ==
    [input_tensor : [h : BlockSizes, w : BlockSizes, c : {2 * DefaultFeatures}],
     skip_tensor : [h : SkipSizes, w : SkipSizes, c : {DefaultFeatures}],
     filters : {DefaultFeatures}, padding : Paddings]

DownsamplingArgs ==
    [input_tensor : [h : SkipSizes, w : SkipSizes, c : ChannelCounts],
     filters : {DefaultFeatures}, padding : Paddings]

InitBlocks ==
    /\ call \in {"upsampling_block", "downsampling_block"}
    /\ cfg \in IF call = "upsampling_block" THEN UpsamplingArgs
                                            ELSE DownsamplingArgs
    /\ pc = "call"
    /\ x = cfg.input_tensor
    /\ skips = IF call = "upsampling_block" THEN <<cfg.skip_tensor>> ELSE << >>
    /\ features = cfg.filters
    /\ i = 0
    /\ dilation_rate = 0
    /\ convs = 0
    /\ encLog = << >>
    /\ dilLog = << >>
    /\ decLog = << >>
    /\ err = "none"
    /\ errAt = NoWhere
    /\ model = NoModel

\* lines 29-59 run on the arguments of a direct call
UpsamplingCall ==
    /\ call = "upsampling_block"
    /\ pc = "call"
    /\ \E zeroOk \in BOOLEAN :
         LET r == UpsamplingBlock(x, skips[1], features, cfg.padding, zeroOk)
         IN  /\ pc' = IF r.err = "none" THEN "done" ELSE "error"
             /\ err' = r.err
             /\ errAt' = IF r.err = "none" THEN NoWhere
                         ELSE [phase |-> "decoder", stage |-> 0]
             /\ x' = IF r.err = "none" THEN r.out ELSE x
             /\ decLog' = IF r.asserted THEN <<[stage |-> 0] @@ r.seen>>
                                        ELSE decLog
             /\ convs' = convs + r.convs
             /\ UNCHANGED <<call, cfg, skips, features, i, dilation_rate,
                            encLog, dilLog, model>>

\* lines 10-27 run on the arguments of a direct call
DownsamplingCall ==
    /\ call = "downsampling_block"
    /\ pc = "call"
    /\ \E zeroOk \in BOOLEAN :
         LET r == DownsamplingBlock(x, features, cfg.padding, zeroOk)
         IN  /\ pc' = IF r.err = "none" THEN "done" ELSE "error"
             /\ err' = r.err
             /\ errAt' = IF r.err = "none" THEN NoWhere
                         ELSE [phase |-> "encoder", stage |-> 0]
             /\ x' = IF r.err = "none" THEN r.pooled ELSE x
             /\ skips' = IF r.err = "none" THEN <<r.skip>> ELSE skips
             /\ encLog' = IF r.err = "none"
                          THEN <<[stage |-> 0, filters |-> features,
                                  skip |-> r.skip]>>
                          ELSE encLog
             /\ convs' = convs + r.convs
             /\ UNCHANGED <<call, cfg, features, i, dilation_rate, dilLog,
                            decLog, model>>

NextBlocks ==
    \/ UpsamplingCall
    \/ DownsamplingCall

SpecBlocks == InitBlocks /\ [][NextBlocks]_vars

\* every entry point of the module
InitModule == InitUnet \/ InitBlocks
NextModule == NextUnet \/ NextBlocks
SpecModule == InitModule /\ [][NextModule]_vars

----------------------------------------------------------------------------
(* Properties.                                                             *)

IsUnet == call = "dilated_unet"
Returned == pc = "done"
Divisible(n, d) == n % d = 0

\* C1: a build that completes with padding='same' yields an output of
\* exactly (height, width), and any completed build, 'valid' included,
\* yields exactly `classes` output channels.
C1_OutputShape ==
    (IsUnet /\ Returned) =>
        /\ model.built
        /\ model.outputs.c = cfg.classes
        /\ cfg.padding = "same" =>
              /\ model.outputs.h = cfg.height
              /\ model.outputs.w = cfg.width

C1_Witness ==
    /\ IsUnet /\ Returned
    /\ cfg.padding = "same" /\ cfg.depth = 3
    /\ cfg.height = 256 /\ cfg.width = 256
    /\ cfg.channels = 1 /\ cfg.classes = 5
    /\ model.outputs = [h |-> 256, w |-> 256, c |-> 5]

\* C2 as stated: for depth >= 1 and both padding modes the build completes
\* only if height and width are divisible by 2^depth, and a violating input
\* raises the shape error before any convolution node has been added
\* (no convolution exists when the assertion error of such an input is
\* raised; builds that went through an empty tensor are left aside).
C2_Original ==
    (IsUnet /\ cfg.depth >= 1) =>
        /\ Returned => /\ Divisible(cfg.height, Pow2(cfg.depth))
                       /\ Divisible(cfg.width, Pow2(cfg.depth))
        /\ (/\ pc = "error" /\ err = "AssertionError"
            /\ \A j \in 1..Len(skips) : skips[j].h > 0 /\ skips[j].w > 0
            /\ ~(/\ Divisible(cfg.height, Pow2(cfg.depth))
                 /\ Divisible(cfg.width, Pow2(cfg.depth)))) =>
              convs = 0

\* C2 amended: with padding='same' and depth >= 1 the build completes only
\* if height and width are divisible by 2^depth; a violating input never
\* leaves the encoder phase and ends in the evenness assertion of the first
\* stage k < depth whose input height \div 2^k or width \div 2^k is odd,
\* after the 2k convolutions of the stages before it have been added: no
\* convolution has been added only when height or width itself is odd.
C2_SamePaddingDivisibility ==
    (/\ IsUnet /\ cfg.depth >= 1 /\ cfg.padding = "same"
     /\ ~(/\ Divisible(cfg.height, Pow2(cfg.depth))
          /\ Divisible(cfg.width, Pow2(cfg.depth)))) =>
        /\ pc \in {"encoder", "error"}
        /\ pc = "error" =>
              LET k == errAt.stage
                  OddAt(j) == \/ (cfg.height \div Pow2(j)) % 2 = 1
                              \/ (cfg.width \div Pow2(j)) % 2 = 1
              IN  /\ err = "AssertionError"
                  /\ errAt.phase = "encoder"
                  /\ k \in 0..(cfg.depth - 1)
                  /\ OddAt(k)
                  /\ \A j \in 0..(k - 1) : ~OddAt(j)
                  /\ convs = 2 * k
                  /\ (convs = 0) <=> (cfg.height % 2 = 1 \/ cfg.width % 2 = 1)
                  /\ model = NoModel

C2_Witness ==
    /\ IsUnet /\ cfg.padding = "same"
    /\ cfg.height = 12 /\ cfg.width = 16 /\ cfg.depth = 3
    /\ pc = "error" /\ err = "AssertionError"
    /\ errAt = [phase |-> "encoder", stage |-> 2]
    /\ convs = 4

C3_Scenario ==
    /\ IsUnet
    /\ cfg.height = 284 /\ cfg.width = 284 /\ cfg.channels = 3
    /\ cfg.classes = 2 /\ cfg.depth = DefaultDepth /\ cfg.padding = "valid"
    /\ cfg.dilation_layers = DefaultDilationLayers

\* C3 as stated: the 284 x 284, depth 4, 'valid' build fails no assertion
\* and returns an output smaller than 284 x 284.
C3_Original ==
    C3_Scenario =>
        /\ err = "none"
        /\ Returned => (model.outputs.h < 284 /\ model.outputs.w < 284)

\* C3 amended: the 284 x 284, depth 4, 'valid' build does not complete: the
\* first encoder stage shrinks 284 to 278 and pools it to 139, and the
\* second encoder stage fails its evenness assertion with two convolutions
\* built; no model is returned.
C3_FailsAtSecondStage ==
    C3_Scenario =>
        /\ pc \in {"encoder", "error"}
        /\ i <= 1
        /\ model = NoModel
        /\ pc = "error" =>
              /\ err = "AssertionError"
              /\ errAt = [phase |-> "encoder", stage |-> 1]
              /\ x.h = 139 /\ x.w = 139
              /\ convs = 2

C3_Witness ==
    /\ C3_Scenario
    /\ pc = "error"
    /\ skips = << [h |-> 278, w |-> 278, c |-> DefaultFeatures] >>

\* shrinkage of a completed 'valid' build: 6 per encoder stage and 4 per
\* decoder stage at that stage's scale, 2 * rate per bottleneck layer
Shrinkage(depth, dilation_layers) ==
    10 * (Pow2(depth) - 1) + 2 * (Pow2(dilation_layers) - 1) * Pow2(depth)

\* C4: a build that completes with padding='valid' yields an output
\* strictly smaller than the input in height and in width, by an amount
\* that depends on depth and dilation_layers only.
C4_ValidShrinks ==
    (IsUnet /\ Returned /\ cfg.padding = "valid") =>
        /\ model.outputs.h < cfg.height
        /\ model.outputs.w < cfg.width
        /\ cfg.height - model.outputs.h
              = Shrinkage(cfg.depth, cfg.dilation_layers)
        /\ cfg.width - model.outputs.w
              = Shrinkage(cfg.depth, cfg.dilation_layers)

\* C5: a call with temperature <= 0, depth <= 0 or dilation_layers <= 0
\* never returns a model.
C5_InvalidConfigNeverReturns ==
    (/\ IsUnet
     /\ \/ cfg.temperature <= 0
        \/ cfg.depth <= 0
        \/ cfg.dilation_layers <= 0) =>
        /\ ~Returned
        /\ model = NoModel


\* the tensor the next downsampling_block call receives, if one is pending
EncoderPending ==
    \/ IsUnet /\ pc = "encoder" /\ i < cfg.depth
    \/ call = "downsampling_block" /\ pc = "call"

\* the next upsampling_block call, if one is pending, computes a negative crop
NegativeCropPending ==
    /\ \/ IsUnet /\ pc = "decoder" /\ i >= 0
       \/ call = "upsampling_block" /\ pc = "call"
    /\ LET skip == IF IsUnet THEN skips[i + 1] ELSE skips[1]
       IN  \/ skip.h - 2 * x.h < 0
           \/ skip.w - 2 * x.w < 0

StopsHere ==
    /\ pc' = "error"
    /\ err' = "AssertionError"
    /\ errAt'.stage = i
    /\ convs' = convs
    /\ x' = x
    /\ model' = NoModel

\* C6: building is all-or-nothing.  A stage handed a tensor of odd height
\* or width, or a decoder stage whose crop amount is negative, ends the
\* call at that stage with the assertion error and nothing more is built;
\* a call that ended in an error takes no further step and returns no
\* model; 100 x 128 at depth 3 fails in the encoder, at the third stage or
\* earlier, in both padding modes.
C6_AllOrNothing ==
    /\ [][(EncoderPending /\ (x.h % 2 = 1 \/ x.w % 2 = 1)) => StopsHere]_vars
    /\ [][NegativeCropPending => StopsHere]_vars
    /\ [][pc # "error"]_vars
    /\ [](pc = "error" => (model = NoModel /\ err # "none"))
    /\ []((IsUnet /\ cfg.height = 100 /\ cfg.width = 128 /\ cfg.depth = 3) =>
            /\ pc \in {"encoder", "error"}
            /\ model = NoModel
            /\ pc = "error" => /\ err = "AssertionError"
                               /\ errAt.phase = "encoder"
                               /\ errAt.stage <= 2)

C6_Witness ==
    /\ IsUnet /\ cfg.height = 100 /\ cfg.width = 128 /\ cfg.depth = 3
    /\ cfg.padding = "same"
    /\ pc = "error" /\ err = "AssertionError"
    /\ errAt = [phase |-> "encoder", stage |-> 2]
    /\ x.h = 25 /\ x.w = 32
    /\ model = NoModel

AfterEncoder == pc \in {"bottleneck", "decoder", "head", "done"}

\* C7: when the encoder phase has ended the skip list has exactly `depth`
\* entries, entry j made by encoder stage j with features0 * 2^j filters;
\* the k-th decoder stage run is stage depth - k, it consumes skip_list of
\* that stage and uses that stage's filter count; after the decoder phase
\* every skip has been consumed once and the feature counter is features0.
C7_SkipSymmetry ==
    IsUnet =>
        /\ AfterEncoder =>
              /\ Len(skips) = cfg.depth
              /\ Len(encLog) = cfg.depth
              /\ \A j \in 1..cfg.depth :
                    /\ encLog[j].stage = j - 1
                    /\ encLog[j].filters = cfg.features * Pow2(j - 1)
                    /\ encLog[j].skip = skips[j]
        /\ \A k \in 1..Len(decLog) :
              LET s == decLog[k].stage
              IN  /\ s = cfg.depth - k
                  /\ decLog[k].skip = encLog[s + 1].skip
                  /\ decLog[k].filters = encLog[s + 1].filters
                  /\ decLog[k].filters = cfg.features * Pow2(s)
        /\ pc \in {"head", "done"} =>
              /\ Len(decLog) = cfg.depth
              /\ features = cfg.features

C7_Witness ==
    /\ IsUnet /\ Returned
    /\ cfg.depth = 3
    /\ Len(skips) = 3 /\ Len(decLog) = 3
    /\ decLog[1].stage = 2 /\ decLog[1].filters = 4 * DefaultFeatures
    /\ decLog[3].stage = 0 /\ decLog[3].filters = DefaultFeatures

\* C8: bottleneck layer n is built with dilation rate 2^n and with
\* features0 * 2^depth filters; the feature counter keeps that value
\* through the phase, which builds exactly dilation_layers layers.
C8_DilationRates ==
    IsUnet =>
        /\ \A k \in 1..Len(dilLog) :
              /\ dilLog[k].layer = k - 1
              /\ dilLog[k].rate = Pow2(k - 1)
              /\ dilLog[k].filters = cfg.features * Pow2(cfg.depth)
        /\ pc = "bottleneck" =>
              /\ features = cfg.features * Pow2(cfg.depth)
              /\ Len(dilLog) = i
        /\ pc \in {"decoder", "head", "done"} =>
              Len(dilLog) = cfg.dilation_layers

C8_Witness ==
    /\ IsUnet /\ Returned
    /\ cfg.dilation_layers = DefaultDilationLayers /\ cfg.depth = 1
    /\ Len(dilLog) = 5
    /\ dilLog[5].rate = 16
    /\ dilLog[5].filters = 2 * DefaultFeatures

\* C9: upsampling_block called on a skip tensor at least as large as the
\* upsampled tensor: with no difference the skip tensor is concatenated
\* as it is; otherwise floor(h_crop / 2) rows go from the top and the rest
\* from the bottom (likewise the columns), one more from the bottom when
\* the difference is odd, and the cropped tensor has the upsampled
\* tensor's height and width.
C9_CenterCrop ==
    (call = "upsampling_block" /\ pc # "call") =>
        LET h_crop == cfg.skip_tensor.h - 2 * cfg.input_tensor.h
            w_crop == cfg.skip_tensor.w - 2 * cfg.input_tensor.w
        IN  (h_crop >= 0 /\ w_crop >= 0) =>
              /\ Len(decLog) = 1
              /\ decLog[1].h_crop = h_crop
              /\ decLog[1].w_crop = w_crop
              /\ (h_crop = 0 /\ w_crop = 0) =>
                    /\ ~decLog[1].cropped
                    /\ decLog[1].y = cfg.skip_tensor
              /\ ~(h_crop = 0 /\ w_crop = 0) =>
                    LET top == decLog[1].cropping[1][1]
                        bottom == decLog[1].cropping[1][2]
                        left == decLog[1].cropping[2][1]
                        right == decLog[1].cropping[2][2]
                    IN  /\ decLog[1].cropped
                        /\ 2 * top <= h_crop /\ h_crop <= 2 * top + 1
                        /\ bottom = h_crop - top
                        /\ 2 * left <= w_crop /\ w_crop <= 2 * left + 1
                        /\ right = w_crop - left
                        /\ h_crop % 2 = 1 => bottom = top + 1
                        /\ w_crop % 2 = 1 => right = left + 1
                        /\ decLog[1].y.h = 2 * cfg.input_tensor.h
                        /\ decLog[1].y.w = 2 * cfg.input_tensor.w
                        /\ decLog[1].y.h = decLog[1].up.h
                        /\ decLog[1].y.w = decLog[1].up.w

C9_Witness ==
    /\ call = "upsampling_block" /\ Returned
    /\ Len(decLog) = 1
    /\ decLog[1].h_crop = 3 /\ decLog[1].w_crop = 0
    /\ decLog[1].cropping = << <<1, 2>>, <<0, 0>> >>
    /\ decLog[1].y.h = decLog[1].up.h

\* C10: in a build by dilated_unet no decoder stage fails the assertions
\* on h_crop and w_crop; both are even at every stage, so the crop is the
\* same on both sides, and both are 0 at every stage with padding='same'.
C10_CropsNeverNegative ==
    IsUnet =>
        /\ ~(pc = "error" /\ err = "AssertionError" /\ errAt.phase = "decoder")
        /\ \A k \in 1..Len(decLog) :
              /\ decLog[k].h_crop >= 0
              /\ decLog[k].w_crop >= 0
              /\ decLog[k].h_crop % 2 = 0
              /\ decLog[k].w_crop % 2 = 0
              /\ decLog[k].cropping[1][1] = decLog[k].cropping[1][2]
              /\ decLog[k].cropping[2][1] = decLog[k].cropping[2][2]
              /\ cfg.padding = "same" =>
                    (decLog[k].h_crop = 0 /\ decLog[k].w_crop = 0)

C10_Witness ==
    /\ IsUnet /\ Returned
    /\ cfg.padding = "valid" /\ cfg.depth = 2
    /\ Len(decLog) = 2
    /\ decLog[1].h_crop = 0
    /\ decLog[2].h_crop = 20
    /\ decLog[2].cropping[1] = <<10, 10>>

====
